---- MODULE Spec2Model ----
(***************************************************************************)
(* Server actions of the dashboard (app/lib/actions.ts): the six record    *)
(* operations createInvoice, updateInvoice, deleteInvoice, createCustomer, *)
(* updateCustomer and deleteCustomer, with the form validation schemas,    *)
(* the upload filename generator, the store, the uploads directory and     *)
(* the cache/navigation collaborators.                                     *)
(*                                                                         *)
(* Text that the code inspects character by character (amounts, emails,    *)
(* file names) is a sequence of one-character strings; text the code only  *)
(* passes along (names, ids, messages) is a TLA+ string.                   *)
(***************************************************************************)
EXTENDS Integers, Sequences, FiniteSets, TLC

VARIABLES
    clock,      \* the wall clock read by new Date()
    invoices,   \* table invoices: id -> row
    customers,  \* table customers: id -> row
    nextId,     \* next id the store assigns on INSERT
    files,      \* public/customers: file name -> request that wrote it last
    pc,         \* per request: position in the action it runs
    op,         \* per request: the action invoked
    arg,        \* per request: the bound id argument (update / delete)
    form,       \* per request: the submitted FormData
    stmt,       \* per request: the SQL statement sent to the store
    filename,   \* per request: result of sanitizeAndTimestampFilename
    result,     \* per request: what the caller observes
    trace       \* per request: side effects in the order they happened

vars == <<clock, invoices, customers, nextId, files, pc, op, arg, form,
          stmt, filename, result, trace>>

(***************************************************************************)
(* Bounds of the model.                                                    *)
(***************************************************************************)
MaxMs == 1      \* the clock advances at most this many milliseconds
MaxDay == 1     \* ... and at most this many days

Requests == {"r1", "r2"}

(***************************************************************************)
(* Text helpers.                                                           *)
(***************************************************************************)
Digits == <<"0", "1", "2", "3", "4", "5", "6", "7", "8", "9">>

DigitChars == {Digits[i] : i \in 1..10}

LowerChars == {"a", "b", "c", "d", "e", "f", "g", "h", "i", "j", "k", "l", "m",
               "n", "o", "p", "q", "r", "s", "t", "u", "v", "w", "x", "y", "z"}

UpperChars == {"A", "B", "C", "D", "E", "F", "G", "H", "I", "J", "K", "L", "M",
               "N", "O", "P", "Q", "R", "S", "T", "U", "V", "W", "X", "Y", "Z"}

DigitValue(c) == CHOOSE i \in 0..9 : Digits[i + 1] = c

RECURSIVE NumberToString(_)
\* String(n) for a non-negative integer
NumberToString(n) ==
    IF n < 10 THEN <<Digits[n + 1]>>
    ELSE NumberToString(n \div 10) \o <<Digits[(n % 10) + 1]>>

RECURSIVE padStart(_, _, _)
\* String.prototype.padStart with a one-character filler
padStart(s, width, fill) ==
    IF Len(s) >= width THEN s ELSE padStart(<<fill>> \o s, width, fill)

\* index of the last occurrence of c in s, 0 when there is none
LastIndexOf(s, c) ==
    IF \E i \in 1..Len(s) : s[i] = c
    THEN CHOOSE i \in 1..Len(s) : s[i] = c /\ \A j \in (i + 1)..Len(s) : s[j] # c
    ELSE 0

\* the last path segment: what follows the last "/"
LastSegment(p) == SubSeq(p, LastIndexOf(p, "/") + 1, Len(p))

\* path.extname: from the last "." of the last segment, "" when the segment
\* has no "." or only a leading one
extname(p) ==
    LET seg == LastSegment(p)
        dot == LastIndexOf(seg, ".")
    IN  IF dot <= 1 THEN <<>> ELSE SubSeq(seg, dot, Len(seg))

\* path.basename(p, ext): the last segment without the suffix ext
basename(p, ext) ==
    LET seg == LastSegment(p)
        n == Len(seg) - Len(ext)
    IN  IF ext # <<>> /\ n >= 1 /\ SubSeq(seg, n + 1, Len(seg)) = ext
        THEN SubSeq(seg, 1, n)
        ELSE seg

\* name.replace(/[^a-zA-Z0-9-_]/g, '_')
SanitizeChars(s) ==
    [i \in 1..Len(s) |->
        IF s[i] \in LowerChars \cup UpperChars \cup DigitChars \cup {"-", "_"}
        THEN s[i] ELSE "_"]

\* the timestamp part of an upload file name: YYYYMMDD_HHMMSS_mmm
Timestamp(now) ==
    padStart(NumberToString(now.year), 4, "0")
    \o padStart(NumberToString(now.month), 2, "0")
    \o padStart(NumberToString(now.day), 2, "0")
    \o <<"_">>
    \o padStart(NumberToString(now.hours), 2, "0")
    \o padStart(NumberToString(now.minutes), 2, "0")
    \o padStart(NumberToString(now.seconds), 2, "0")
    \o <<"_">>
    \o padStart(NumberToString(now.milliseconds), 3, "0")

sanitizeAndTimestampFilename(originalFilename, now) ==
    LET extension == extname(originalFilename)
        nameWithoutExtension == SanitizeChars(basename(originalFilename, extension))
    IN  nameWithoutExtension \o <<"_">> \o Timestamp(now) \o extension

\* new Date().toISOString().split('T')[0] (the clock is kept in UTC)
IsoDate(now) ==
    padStart(NumberToString(now.year), 4, "0") \o <<"-">>
    \o padStart(NumberToString(now.month), 2, "0") \o <<"-">>
    \o padStart(NumberToString(now.day), 2, "0")

(***************************************************************************)
(* Raw values: what FormData.get returns (null, a string or a File) and    *)
(* what a key left out of the parsed object reads as (undefined).          *)
(***************************************************************************)
Undefined == [kind |-> "undefined"]

Null == [kind |-> "null"]

Str(s) == [kind |-> "string", str |-> s]

FileOf(n, sz, t) == [kind |-> "file", name |-> n, size |-> sz, type |-> t]

(***************************************************************************)
(* The validator (zod 3): every check yields its sequence of issue         *)
(* messages, empty when the value passes.                                  *)
(***************************************************************************)
\* zod's default message of an invalid_type issue on a z.string()
DefaultStringError(v) ==
    CASE v.kind = "undefined" -> "Required"
      [] v.kind = "null" -> "Expected string, received null"
      [] OTHER -> "Expected string, received object"

\* z.string({required_error, invalid_type_error}): the custom error map
\* answers required_error only for undefined, invalid_type_error otherwise
ZString(v, required_error, invalid_type_error) ==
    IF v.kind = "string" THEN <<>>
    ELSE IF v.kind = "undefined" THEN <<required_error>>
    ELSE <<invalid_type_error>>

Trim(s) ==
    IF \A i \in 1..Len(s) : s[i] = " " THEN <<>>
    ELSE LET a == CHOOSE i \in 1..Len(s) : s[i] # " " /\ \A j \in 1..(i - 1) : s[j] = " "
             b == CHOOSE i \in 1..Len(s) : s[i] # " " /\ \A j \in (i + 1)..Len(s) : s[j] = " "
         IN  SubSeq(s, a, b)

IsDigits(s) == \A i \in 1..Len(s) : s[i] \in DigitChars

RECURSIVE DigitsValue(_)
DigitsValue(s) ==
    IF s = <<>> THEN 0
    ELSE DigitsValue(SubSeq(s, 1, Len(s) - 1)) * 10 + DigitValue(s[Len(s)])

NaN == [nan |-> TRUE, hundredths |-> 0]

Num(h) == [nan |-> FALSE, hundredths |-> h]

\* Number(string) on decimal literals: blank is 0, an optional sign, digits
\* and at most one "."; anything else is NaN. A number is kept as its value
\* in hundredths, so the literals of the model have at most two fraction
\* digits (exponents, hex and Infinity are outside the model's inputs).
StringToNumber(s) ==
    LET t == Trim(s)
        signed == t # <<>> /\ t[1] \in {"-", "+"}
        body == IF signed THEN Tail(t) ELSE t
        dot == LastIndexOf(body, ".")
        int == IF dot = 0 THEN body ELSE SubSeq(body, 1, dot - 1)
        frac == IF dot = 0 THEN <<>> ELSE SubSeq(body, dot + 1, Len(body))
        frac2 == IF Len(frac) = 1 THEN frac \o <<"0">> ELSE frac
        magnitude == DigitsValue(int) * 100 + DigitsValue(frac2)
    IN  IF t = <<>> THEN Num(0)
        ELSE IF IsDigits(int) /\ IsDigits(frac) /\ Len(int) + Len(frac) >= 1
                /\ Len(frac) <= 2
        THEN Num(IF t[1] = "-" THEN 0 - magnitude ELSE magnitude)
        ELSE NaN

\* z.coerce: Number(input)
CoerceNumber(v) ==
    CASE v.kind = "null" -> Num(0)
      [] v.kind = "string" -> StringToNumber(v.str)
      [] OTHER -> NaN

\* z.coerce.number().gt(0, {message}): NaN is an invalid_type issue with
\* zod's default message and the gt check is not reached
ZAmount(v) ==
    LET n == CoerceNumber(v)
    IN  IF n.nan THEN <<"Expected number, received nan">>
        ELSE IF n.hundredths > 0 THEN <<>>
        ELSE <<"Please enter an amount greater than $0.">>

\* z.enum(['pending', 'paid'], {invalid_type_error}): a non-string is an
\* invalid_type issue, a string outside the list an invalid_enum_value
\* issue, which the custom error map leaves to zod's default message (the
\* default message goes on with the received value)
ZStatus(v) ==
    IF v.kind = "undefined" THEN <<"Required">>
    ELSE IF v.kind # "string" THEN <<"Please select an invoice status.">>
    ELSE IF v.str \in {"pending", "paid"} THEN <<>>
    ELSE <<"Invalid enum value. Expected 'pending' | 'paid'">>

\* the labels of a domain name: the parts between the "."s
RECURSIVE Labels(_)
Labels(s) ==
    LET dot == LastIndexOf(s, ".")
    IN  IF dot = 0 THEN <<s>>
        ELSE Append(Labels(SubSeq(s, 1, dot - 1)), SubSeq(s, dot + 1, Len(s)))

\* zod's email pattern:
\*   ^(?!\.)(?!.*\.\.)([A-Z0-9_'+\-\.]*)[A-Z0-9_+-]@([A-Z0-9][A-Z0-9\-]*\.)+[A-Z]{2,}$
IsEmail(s) ==
    LET at == LastIndexOf(s, "@")
        local == SubSeq(s, 1, at - 1)
        domain == SubSeq(s, at + 1, Len(s))
        labels == Labels(domain)
        alnum == LowerChars \cup UpperChars \cup DigitChars
        tld == labels[Len(labels)]
    IN  /\ at > 1
        /\ \A i \in 1..Len(local) : local[i] \in alnum \cup {"_", "'", "+", "-", "."}
        /\ local[1] # "."
        /\ local[Len(local)] # "." /\ local[Len(local)] # "'"
        /\ \A i \in 1..(Len(s) - 1) : ~(s[i] = "." /\ s[i + 1] = ".")
        /\ Len(labels) >= 2
        /\ \A k \in 1..(Len(labels) - 1) :
              /\ labels[k] # <<>>
              /\ labels[k][1] \in alnum
              /\ \A i \in 1..Len(labels[k]) : labels[k][i] \in alnum \cup {"-"}
        /\ Len(tld) >= 2
        /\ \A i \in 1..Len(tld) : tld[i] \in LowerChars \cup UpperChars

\* z.string().email({message})
ZEmail(v) ==
    IF v.kind # "string" THEN <<DefaultStringError(v)>>
    ELSE IF IsEmail(v.str) THEN <<>>
    ELSE <<"Email no válido">>

MaxFileSize == 5 * 1024 * 1024

ImageTypes == {"image/jpeg", "image/png", "image/webp", "image/jpg"}

\* image_upload: transform (a File stays, anything else becomes null) and
\* superRefine (the fatal "Not a file", else size and type issues together)
ZImageUpload(v) ==
    IF v.kind # "file" THEN <<"Not a file">>
    ELSE (IF v.size > MaxFileSize THEN <<"Max file size allowed is 5MB">> ELSE <<>>)
         \o (IF v.type \in ImageTypes THEN <<>>
             ELSE <<"File must be an image (jpeg, jpg, png, webp)">>)

\* CreateInvoice / UpdateInvoice .safeParse(...).error.flatten().fieldErrors;
\* a field without issues is an empty sequence here, absent in zod
InvoiceFieldErrors(f) ==
    [customerId |-> ZString(f.customerId, "Required", "Please select a customer."),
     amount |-> ZAmount(f.amount),
     status |-> ZStatus(f.status)]

\* CreateCustomer / UpdateCustomer: both keep image_upload in the schema
CustomerFieldErrors(f) ==
    [name |-> ZString(f.name, "Ingrese el nombre del cliente", "Caracteres no válidos"),
     email |-> ZEmail(f.email),
     image_url |-> IF f.image_url.kind = "string" THEN <<>>
                   ELSE <<DefaultStringError(f.image_url)>>,
     image_upload |-> ZImageUpload(f.image_upload)]

\* validatedFields.success
Success(errors) == \A k \in DOMAIN errors : errors[k] = <<>>

NoErrors == [none |-> <<>>]

\* const amountInCents = amount * 100 (exact on the model's literals)
AmountInCents(v) == CoerceNumber(v).hundredths

(***************************************************************************)
(* The store: one statement is one atomic step of the store.               *)
(***************************************************************************)
NoStmt == [text |-> "none"]

InsertInvoiceStmt(f, now) ==
    [text |-> "INSERT INTO invoices",
     customer_id |-> f.customerId.str,
     amount |-> AmountInCents(f.amount),
     status |-> f.status.str,
     date |-> IsoDate(now)]

\* the UPDATE without its WHERE restriction: every invoice is rewritten
UpdateInvoiceStmtNoWhere(id, f) ==
    [text |-> "UPDATE invoices",
     set |-> [customer_id |-> f.customerId.str,
              amount |-> AmountInCents(f.amount),
              status |-> f.status.str],
     where |-> {1, 2, 3, 4}]

UpdateInvoiceStmt(id, f) ==
    [text |-> "UPDATE invoices",
     set |-> [customer_id |-> f.customerId.str,
              amount |-> AmountInCents(f.amount),
              status |-> f.status.str],
     where |-> {id}]

DeleteInvoiceStmt(id) == [text |-> "DELETE FROM invoices", where |-> {id}]

InsertCustomerStmt(f) ==
    [text |-> "INSERT INTO customers",
     name |-> f.name.str,
     email |-> f.email.str,
     image_url |-> f.image_url.str]

\* '/customers/' + filename
ImagePath(fn) == <<"/", "c", "u", "s", "t", "o", "m", "e", "r", "s", "/">> \o fn

UpdateCustomerStmt(id, f, fn) ==
    [text |-> "UPDATE customers",
     set |-> [name |-> f.name.str, email |-> f.email.str, image_url |-> ImagePath(fn)],
     where |-> {id}]

DeleteCustomerStmt(id) == [text |-> "DELETE FROM customers", where |-> {id}]

\* ids the store hands out, in order
CustomerIdOf(n) == <<"c1", "c2", "c3", "c4">>[n]

\* the rows of a table after UPDATE ... SET set WHERE id in where
UpdateRows(table, set, where) ==
    [id \in DOMAIN table |->
        IF id \in where
        THEN [col \in DOMAIN table[id] |->
                 IF col \in DOMAIN set THEN set[col] ELSE table[id][col]]
        ELSE table[id]]

DeleteRows(table, where) == [id \in DOMAIN table \ where |-> table[id]]

ExecInvoices(s, table, ids) ==
    CASE s.text = "INSERT INTO invoices" ->
            table @@ (ids.invoices :>
                [customer_id |-> s.customer_id, amount |-> s.amount,
                 status |-> s.status, date |-> s.date])
      [] s.text = "UPDATE invoices" -> UpdateRows(table, s.set, s.where)
      [] s.text = "DELETE FROM invoices" -> DeleteRows(table, s.where)
      [] OTHER -> table

ExecCustomers(s, table, ids) ==
    CASE s.text = "INSERT INTO customers" ->
            table @@ (CustomerIdOf(ids.customers) :>
                [name |-> s.name, email |-> s.email, image_url |-> s.image_url])
      [] s.text = "UPDATE customers" -> UpdateRows(table, s.set, s.where)
      [] s.text = "DELETE FROM customers" -> DeleteRows(table, s.where)
      [] OTHER -> table

ExecIds(s, ids) ==
    CASE s.text = "INSERT INTO invoices" -> [ids EXCEPT !.invoices = @ + 1]
      [] s.text = "INSERT INTO customers" -> [ids EXCEPT !.customers = @ + 1]
      [] OTHER -> ids

(***************************************************************************)
(* What a request leaves behind: its side effects and what its caller      *)
(* observes.                                                               *)
(***************************************************************************)
Ev(e, w) == [ev |-> e, what |-> w]

NoResult == [kind |-> "none"]

\* return { errors, message }
Return(errors, message) == [kind |-> "return", errors |-> errors, message |-> message]

\* redirect(path): leaves the action by the framework's redirect signal
Redirected(path) == [kind |-> "redirect", to |-> path]

\* the action's promise resolves with undefined
Void == [kind |-> "void"]

\* the action's promise rejects: the error leaves the action
Throw(error) == [kind |-> "throw", error |-> error]

InvoiceOps == {"createInvoice", "updateInvoice", "deleteInvoice"}

DeleteOps == {"deleteInvoice", "deleteCustomer"}

\* the listing view an action revalidates
ListingPath(o) ==
    IF o \in InvoiceOps THEN "/dashboard/invoices" ELSE "/dashboard/customers"

\* the message returned when validation fails
MissingFieldsMessage(o) ==
    CASE o = "createInvoice" -> "Missing Fields. Failed to Create Invoice."
      [] o = "updateInvoice" -> "Missing Fields. Failed to Update Invoice."
      [] o = "createCustomer" -> "Missing Fields. Failed to Create Invoice."
      [] o = "updateCustomer" -> "Missing Fields. Failed to Update Invoice."

\* the message returned by the catch around the store statement
DatabaseErrorMessage(o) ==
    CASE o = "createInvoice" -> "Database Error: Failed to Create Invoice."
      [] o = "updateInvoice" -> "Database Error: Failed to Update Invoice."
      [] o = "createCustomer" -> "Database Error: Failed to Create Customer."
      [] o = "updateCustomer" -> "Database Error: Failed to Update Customer."

\* the store statement of the action sits in a try / catch
CatchesStoreError(o) == o \notin DeleteOps

\* redirect called before revalidatePath: redirect leaves the action, the
\* listing is never marked stale
OnStoreSuccessRedirectFirst(o) ==
    IF o \in DeleteOps
    THEN [events |-> <<Ev("revalidatePath", ListingPath(o))>>,
          result |-> Void]
    ELSE [events |-> <<Ev("redirect", ListingPath(o))>>,
          result |-> Redirected(ListingPath(o))]

\* the code after the awaited store statement, reached when it succeeded:
\* revalidatePath, then redirect in the create and update actions
OnStoreSuccess(o) ==
    IF o \in DeleteOps
    THEN [events |-> <<Ev("revalidatePath", ListingPath(o))>>,
          result |-> Void]
    ELSE [events |-> <<Ev("revalidatePath", ListingPath(o)),
                       Ev("redirect", ListingPath(o))>>,
          result |-> Redirected(ListingPath(o))]

\* a catch that logs and does not return: the action goes on to
\* revalidatePath and redirect
OnStoreFailureFallsThrough(o) ==
    IF o \in DeleteOps
    THEN [events |-> <<>>, result |-> Throw("store error")]
    ELSE [events |-> <<Ev("revalidatePath", ListingPath(o)),
                       Ev("redirect", ListingPath(o))>>,
          result |-> Redirected(ListingPath(o))]

\* the store statement failed: the catch returns the message; the delete
\* actions have no catch and the error leaves the action
OnStoreFailure(o) ==
    IF CatchesStoreError(o)
    THEN [events |-> <<>>, result |-> Return(NoErrors, DatabaseErrorMessage(o))]
    ELSE [events |-> <<>>, result |-> Throw("store error")]

\* updateCustomer after writeFile resolved: the UPDATE is sent
OnWriteFileSuccess(id, f, fn) ==
    [pc |-> "sql",
     stmt |-> UpdateCustomerStmt(id, f, fn),
     events |-> <<Ev("sql", "UPDATE customers")>>,
     result |-> NoResult]

\* a catch around writeFile that logs and does not return: the UPDATE is
\* sent although no file was written
OnWriteFileFailureFallsThrough(id, f, fn) ==
    [pc |-> "sql",
     stmt |-> UpdateCustomerStmt(id, f, fn),
     events |-> <<Ev("sql", "UPDATE customers")>>,
     result |-> NoResult]

\* updateCustomer after writeFile rejected: the catch returns
OnWriteFileFailure(id, f, fn) ==
    [pc |-> "done",
     stmt |-> NoStmt,
     events |-> <<>>,
     result |-> Return(NoErrors, "Error occured al grabar archivo.")]

\* if (!file): null, undefined and the empty string are falsy
Falsy(v) == v.kind \in {"null", "undefined"} \/ (v.kind = "string" /\ v.str = <<>>)

(***************************************************************************)
(* Inputs.                                                                 *)
(***************************************************************************)
AmountInputs ==
    {Null, Str(<<>>), Str(<<"a", "b", "c">>), Str(<<"0">>), Str(<<"-", "5">>),
     Str(<<"1", "0", ".", "5", "0">>)}

StatusInputs == {Null, Str("pending"), Str("paid"), Str("foo")}

InvoiceForms ==
    [customerId : {Null, Str("c2")}, amount : AmountInputs, status : StatusInputs]

NameInputs == {Null, Str(""), Str("Bob")}

EmailInputs ==
    {Str(<<"b", "o", "b">>), Str(<<"b", "o", "b", "@", "x", ".", "i", "o">>)}

ImageUrlInputs == {Str(<<"/", "c", "u", "s", "t", "o", "m", "e", "r", "s", "/", "b", ".", "p", "n", "g">>)}

\* uploads: two names that differ only in a character the sanitizer
\* replaces, and a file that is too large and of the wrong type
UploadInputs ==
    {Null,
     FileOf(<<"a", " ", "b", ".", "P", "N", "G">>, 2 * 1024 * 1024, "image/png"),
     FileOf(<<"a", "_", "b", ".", "P", "N", "G">>, 2 * 1024 * 1024, "image/jpeg"),
     FileOf(<<"c", ".", "t", "x", "t">>, 6 * 1024 * 1024, "text/plain")}

\* the create form has no image_upload field
CreateCustomerForms ==
    [name : NameInputs, email : EmailInputs, image_url : ImageUrlInputs]

UpdateCustomerForms ==
    [name : NameInputs, email : EmailInputs, image_url : ImageUrlInputs,
     image_upload : UploadInputs]

InvoiceIds == {1, 2}

CustomerIds == {"c1", "c2"}

NoForm == [none |-> TRUE]

NoArg == <<>>

(***************************************************************************)
(* Initial state: a seeded store, an empty uploads directory, no request   *)
(* started.                                                                *)
(***************************************************************************)
Init ==
    /\ clock = [year |-> 2024, month |-> 3, day |-> 1, hours |-> 10,
                minutes |-> 20, seconds |-> 30, milliseconds |-> 0]
    /\ invoices =
          (1 :> [customer_id |-> "c1", amount |-> 2000, status |-> "pending",
                 date |-> <<"2", "0", "2", "4", "-", "0", "2", "-", "1", "4">>])
          @@ (2 :> [customer_id |-> "c1", amount |-> 500, status |-> "paid",
                    date |-> <<"2", "0", "2", "4", "-", "0", "2", "-", "1", "5">>])
    /\ customers =
          ("c1" :> [name |-> "Ann", email |-> <<"a", "@", "x", ".", "i", "o">>,
                    image_url |-> ImagePath(<<"a", ".", "p", "n", "g">>)])
          @@ ("c2" :> [name |-> "Cy", email |-> <<"c", "@", "x", ".", "i", "o">>,
                       image_url |-> ImagePath(<<"c", ".", "p", "n", "g">>)])
    /\ nextId = [invoices |-> 3, customers |-> 3]
    /\ files = [n \in {} |-> "r1"]
    /\ pc = [r \in Requests |-> "idle"]
    /\ op = [r \in Requests |-> "none"]
    /\ arg = [r \in Requests |-> NoArg]
    /\ form = [r \in Requests |-> NoForm]
    /\ stmt = [r \in Requests |-> NoStmt]
    /\ filename = [r \in Requests |-> <<>>]
    /\ result = [r \in Requests |-> NoResult]
    /\ trace = [r \in Requests |-> <<>>]

(***************************************************************************)
(* Actions.                                                                *)
(***************************************************************************)
\* a request is submitted: the action o is called with id and form f
Begin(r, o, id, f) ==
    /\ pc[r] = "idle"
    /\ op' = [op EXCEPT ![r] = o]
    /\ arg' = [arg EXCEPT ![r] = id]
    /\ form' = [form EXCEPT ![r] = f]

\* the request moves on
Goto(r, newpc, newstmt, events, newresult) ==
    /\ pc' = [pc EXCEPT ![r] = newpc]
    /\ stmt' = [stmt EXCEPT ![r] = newstmt]
    /\ trace' = [trace EXCEPT ![r] = @ \o events]
    /\ result' = [result EXCEPT ![r] = newresult]

\* time passes
Tick ==
    /\ clock.milliseconds < MaxMs
    /\ clock' = [clock EXCEPT !.milliseconds = @ + 1]
    /\ UNCHANGED <<invoices, customers, nextId, files, pc, op, arg, form, stmt,
                   filename, result, trace>>

DayPasses ==
    /\ clock.day < 1 + MaxDay
    /\ clock' = [clock EXCEPT !.day = @ + 1]
    /\ UNCHANGED <<invoices, customers, nextId, files, pc, op, arg, form, stmt,
                   filename, result, trace>>

\* createInvoice up to its first await
createInvoice(r, f) ==
    /\ Begin(r, "createInvoice", NoArg, f)
    /\ LET errors == InvoiceFieldErrors(f)
       IN  IF ~Success(errors)
           THEN Goto(r, "done", NoStmt, <<>>,
                     Return(errors, MissingFieldsMessage("createInvoice")))
           ELSE Goto(r, "sql", InsertInvoiceStmt(f, clock),
                     <<Ev("sql", "INSERT INTO invoices")>>, NoResult)
    /\ UNCHANGED <<clock, invoices, customers, nextId, files, filename>>

\* updateInvoice up to its first await
updateInvoice(r, id, f) ==
    /\ Begin(r, "updateInvoice", id, f)
    /\ LET errors == InvoiceFieldErrors(f)
       IN  IF ~Success(errors)
           THEN Goto(r, "done", NoStmt, <<>>,
                     Return(errors, MissingFieldsMessage("updateInvoice")))
           ELSE Goto(r, "sql", UpdateInvoiceStmt(id, f),
                     <<Ev("sql", "UPDATE invoices")>>, NoResult)
    /\ UNCHANGED <<clock, invoices, customers, nextId, files, filename>>

deleteInvoice(r, id) ==
    /\ Begin(r, "deleteInvoice", id, NoForm)
    /\ Goto(r, "sql", DeleteInvoiceStmt(id), <<Ev("sql", "DELETE FROM invoices")>>,
            NoResult)
    /\ UNCHANGED <<clock, invoices, customers, nextId, files, filename>>

\* createCustomer up to its first await. image_upload is not passed to the
\* schema, which still holds it: the transform sees undefined and, for a
\* value that is no File, evaluates `val instanceof FileList`, a
\* ReferenceError on a runtime that defines no FileList.
createCustomer(r, f, fileListDefined) ==
    /\ Begin(r, "createCustomer", NoArg, f)
    /\ LET errors == CustomerFieldErrors(
                        [name |-> f.name, email |-> f.email,
                         image_url |-> f.image_url, image_upload |-> Undefined])
       IN  IF ~fileListDefined
           THEN Goto(r, "done", NoStmt, <<>>, Throw("ReferenceError"))
           ELSE IF ~Success(errors)
           THEN Goto(r, "done", NoStmt, <<>>,
                     Return(errors, MissingFieldsMessage("createCustomer")))
           ELSE Goto(r, "sql", InsertCustomerStmt(f),
                     <<Ev("sql", "INSERT INTO customers")>>, NoResult)
    /\ UNCHANGED <<clock, invoices, customers, nextId, files, filename>>

\* updateCustomer up to its first await (image_upload.arrayBuffer())
updateCustomer(r, id, f, fileListDefined) ==
    /\ Begin(r, "updateCustomer", id, f)
    /\ LET errors == CustomerFieldErrors(f)
       IN  IF f.image_upload.kind # "file" /\ ~fileListDefined
           THEN Goto(r, "done", NoStmt, <<>>, Throw("ReferenceError"))
           ELSE IF ~Success(errors)
           THEN Goto(r, "done", NoStmt, <<>>,
                     Return(errors, MissingFieldsMessage("updateCustomer")))
           ELSE IF Falsy(f.image_upload)
           THEN Goto(r, "done", NoStmt, <<>>, Return(NoErrors, "No files received."))
           ELSE Goto(r, "arrayBuffer", NoStmt, <<>>, NoResult)
    /\ UNCHANGED <<clock, invoices, customers, nextId, files, filename>>

deleteCustomer(r, id) ==
    /\ Begin(r, "deleteCustomer", id, NoForm)
    /\ Goto(r, "sql", DeleteCustomerStmt(id), <<Ev("sql", "DELETE FROM customers")>>,
            NoResult)
    /\ UNCHANGED <<clock, invoices, customers, nextId, files, filename>>

\* updateCustomer: the buffer is there, the file name is generated from the
\* clock and writeFile is called
ArrayBufferResolve(r) ==
    /\ pc[r] = "arrayBuffer"
    /\ LET fn == sanitizeAndTimestampFilename(form[r].image_upload.name, clock)
       IN  /\ filename' = [filename EXCEPT ![r] = fn]
           /\ Goto(r, "writeFile", NoStmt, <<Ev("writeFile", fn)>>, NoResult)
    /\ UNCHANGED <<clock, invoices, customers, nextId, files, op, arg, form>>

\* updateCustomer: writeFile resolved, the file holds this request's bytes
WriteFileResolve(r) ==
    /\ pc[r] = "writeFile"
    /\ files' = [n \in DOMAIN files \cup {filename[r]} |->
                    IF n = filename[r] THEN r ELSE files[n]]
    /\ LET next == OnWriteFileSuccess(arg[r], form[r], filename[r])
       IN  Goto(r, next.pc, next.stmt, <<Ev("writeFileOk", filename[r])>> \o next.events,
                next.result)
    /\ UNCHANGED <<clock, invoices, customers, nextId, op, arg, form, filename>>

\* updateCustomer: writeFile rejected (disk full, permissions)
WriteFileReject(r) ==
    /\ pc[r] = "writeFile"
    /\ LET next == OnWriteFileFailure(arg[r], form[r], filename[r])
       IN  Goto(r, next.pc, next.stmt, <<Ev("writeFileErr", filename[r])>> \o next.events,
                next.result)
    /\ UNCHANGED <<clock, invoices, customers, nextId, files, op, arg, form, filename>>

\* the store ran the statement; the action resumes after its await
SqlResolve(r) ==
    /\ pc[r] = "sql"
    /\ invoices' = ExecInvoices(stmt[r], invoices, nextId)
    /\ customers' = ExecCustomers(stmt[r], customers, nextId)
    /\ nextId' = ExecIds(stmt[r], nextId)
    /\ LET next == OnStoreSuccess(op[r])
       IN  Goto(r, "done", stmt[r], <<Ev("sqlOk", stmt[r].text)>> \o next.events,
                next.result)
    /\ UNCHANGED <<clock, files, op, arg, form, filename>>

\* the store failed the statement (constraint, connectivity): no row changes
SqlReject(r) ==
    /\ pc[r] = "sql"
    /\ LET next == OnStoreFailure(op[r])
       IN  Goto(r, "done", stmt[r], <<Ev("sqlErr", stmt[r].text)>> \o next.events,
                next.result)
    /\ UNCHANGED <<clock, invoices, customers, nextId, files, op, arg, form, filename>>

(***************************************************************************)
(* Specifications. Spec runs all six actions on a few forms each;          *)
(* SpecInvoices and SpecCustomers run the actions of one entity on all the *)
(* forms of the model.                                                     *)
(***************************************************************************)
CoreInvoiceForms ==
    [customerId : {Str("c2")},
     amount : {Str(<<"0">>), Str(<<"1", "0", ".", "5", "0">>)},
     status : {Str("paid")}]

CoreCreateCustomerForms ==
    [name : {Str("Bob")}, email : EmailInputs, image_url : ImageUrlInputs]

CoreUpdateCustomerForms ==
    [name : {Str("Bob")}, email : EmailInputs, image_url : ImageUrlInputs,
     image_upload : {Null, FileOf(<<"a", " ", "b", ".", "P", "N", "G">>,
                                  2 * 1024 * 1024, "image/png")}]

Next ==
    \/ Tick
    \/ DayPasses
    \/ \E r \in Requests, f \in CoreInvoiceForms : createInvoice(r, f)
    \/ \E r \in Requests, id \in InvoiceIds, f \in CoreInvoiceForms :
          updateInvoice(r, id, f)
    \/ \E r \in Requests, id \in InvoiceIds : deleteInvoice(r, id)
    \/ \E r \in Requests, f \in CoreCreateCustomerForms, fl \in BOOLEAN :
          createCustomer(r, f, fl)
    \/ \E r \in Requests, id \in CustomerIds, f \in CoreUpdateCustomerForms,
          fl \in BOOLEAN : updateCustomer(r, id, f, fl)
    \/ \E r \in Requests, id \in CustomerIds : deleteCustomer(r, id)
    \/ \E r \in Requests : ArrayBufferResolve(r)
    \/ \E r \in Requests : WriteFileResolve(r)
    \/ \E r \in Requests : WriteFileReject(r)
    \/ \E r \in Requests : SqlResolve(r)
    \/ \E r \in Requests : SqlReject(r)

Spec == Init /\ [][Next]_vars

NextInvoices ==
    \/ Tick
    \/ DayPasses
    \/ \E r \in Requests, f \in InvoiceForms : createInvoice(r, f)
    \/ \E r \in Requests, id \in InvoiceIds, f \in InvoiceForms : updateInvoice(r, id, f)
    \/ \E r \in Requests, id \in InvoiceIds : deleteInvoice(r, id)
    \/ \E r \in Requests : SqlResolve(r)
    \/ \E r \in Requests : SqlReject(r)

SpecInvoices == Init /\ [][NextInvoices]_vars

NextCustomers ==
    \/ Tick
    \/ DayPasses
    \/ \E r \in Requests, f \in CreateCustomerForms, fl \in BOOLEAN :
          createCustomer(r, f, fl)
    \/ \E r \in Requests, id \in CustomerIds, f \in UpdateCustomerForms, fl \in BOOLEAN :
          updateCustomer(r, id, f, fl)
    \/ \E r \in Requests, id \in CustomerIds : deleteCustomer(r, id)
    \/ \E r \in Requests : ArrayBufferResolve(r)
    \/ \E r \in Requests : WriteFileResolve(r)
    \/ \E r \in Requests : WriteFileReject(r)
    \/ \E r \in Requests : SqlResolve(r)
    \/ \E r \in Requests : SqlReject(r)

SpecCustomers == Init /\ [][NextCustomers]_vars

(***************************************************************************)
(* Properties.                                                             *)
(***************************************************************************)
\* the request has an effect of kind e in its trace
Has(r, e) == \E i \in DOMAIN trace[r] : trace[r][i].ev = e

\* the effects of kind e of the request, as positions of its trace
Positions(r, e) == {i \in DOMAIN trace[r] : trace[r][i].ev = e}

\* the request returned a validation failure
ValidationFailed(r) == result[r].kind = "return" /\ result[r].errors # NoErrors

\* C1: in updateCustomer the UPDATE customers statement is sent only after
\* writeFile has succeeded; when writeFile fails the action returns a failure
\* message and sends no statement, invalidates nothing and navigates nowhere.
C1_UpdateOnlyAfterFileWritten ==
    \A r \in Requests :
        op[r] = "updateCustomer" =>
            /\ \A i \in Positions(r, "sql") :
                  \E j \in Positions(r, "writeFileOk") : j < i
            /\ Has(r, "writeFileErr") =>
                  /\ pc[r] = "done"
                  /\ result[r].kind = "return"
                  /\ result[r].errors = NoErrors
                  /\ result[r].message = "Error occured al grabar archivo."
                  /\ ~Has(r, "sql") /\ ~Has(r, "sqlOk") /\ ~Has(r, "sqlErr")
                  /\ ~Has(r, "revalidatePath") /\ ~Has(r, "redirect")

\* one upload failed to be written and another was written and its UPDATE sent
C1_Witness ==
    \E r1, r2 \in Requests :
        /\ op[r1] = "updateCustomer" /\ pc[r1] = "done" /\ Has(r1, "writeFileErr")
        /\ op[r2] = "updateCustomer" /\ Has(r2, "writeFileOk") /\ Has(r2, "sql")

\* C2: in every action revalidatePath and redirect happen only after the store
\* statement of the same request has succeeded; a request whose validation
\* failed or whose store statement failed neither invalidates nor navigates.
C2_InvalidateAndNavigateOnlyAfterSuccess ==
    \A r \in Requests :
        /\ \A i \in Positions(r, "revalidatePath") \cup Positions(r, "redirect") :
              \E j \in Positions(r, "sqlOk") : j < i
        /\ (ValidationFailed(r) \/ Has(r, "sqlErr")) =>
              /\ ~Has(r, "revalidatePath") /\ ~Has(r, "redirect")
              /\ result[r].kind # "redirect"

\* a request failed validation and another had its store statement fail
C2_Witness ==
    \E r1, r2 \in Requests :
        /\ pc[r1] = "done" /\ ValidationFailed(r1)
        /\ pc[r2] = "done" /\ Has(r2, "sqlErr") /\ op[r2] \notin DeleteOps

\* C3, as claimed: every store failure is caught inside the action and comes
\* back as a returned message naming the entity and the operation; no store
\* error leaves the action.
C3_StoreErrorsAreReturned ==
    \A r \in Requests :
        Has(r, "sqlErr") =>
            /\ result[r].kind = "return"
            /\ result[r].message \in
                  {"Database Error: Failed to Create Invoice.",
                   "Database Error: Failed to Update Invoice.",
                   "Database Error: Failed to Delete Invoice.",
                   "Database Error: Failed to Create Customer.",
                   "Database Error: Failed to Update Customer.",
                   "Database Error: Failed to Delete Customer."}

\* the amount is not a number greater than 0
BadAmount(v) ==
    \/ v.kind # "string"
    \/ CoerceNumber(v).nan
    \/ CoerceNumber(v).hundredths <= 0

\* C4, as claimed: an amount that is <= 0, non-numeric, missing or empty fails
\* createInvoice and updateInvoice with the amount message, and no statement
\* is sent.
C4_BadAmountHasAmountMessage ==
    \A r \in Requests :
        (op[r] \in {"createInvoice", "updateInvoice"} /\ BadAmount(form[r].amount)) =>
            /\ ValidationFailed(r)
            /\ \E i \in DOMAIN result[r].errors.amount :
                  result[r].errors.amount[i] = "Please enter an amount greater than $0."
            /\ ~Has(r, "sql")

\* C5, as claimed: a status that is not exactly "pending" or "paid" fails
\* createInvoice and updateInvoice with the status message, and no statement
\* is sent.
C5_BadStatusHasStatusMessage ==
    \A r \in Requests :
        (op[r] \in {"createInvoice", "updateInvoice"}
         /\ form[r].status \notin {Str("pending"), Str("paid")}) =>
            /\ ValidationFailed(r)
            /\ \E i \in DOMAIN result[r].errors.status :
                  result[r].errors.status[i] = "Please select an invoice status."
            /\ ~Has(r, "sql")

\* C6, as claimed: a missing or empty customer name fails createCustomer and
\* updateCustomer with "Ingrese el nombre del cliente" under name, and no file
\* is written and no statement sent.
C6_NameIsRequired ==
    \A r \in Requests :
        (op[r] \in {"createCustomer", "updateCustomer"}
         /\ form[r].name \in {Null, Str("")}) =>
            /\ ValidationFailed(r)
            /\ \E i \in DOMAIN result[r].errors.name :
                  result[r].errors.name[i] = "Ingrese el nombre del cliente"
            /\ ~Has(r, "writeFile") /\ ~Has(r, "sql")

\* C7, as claimed: createCustomer with a valid name, a valid email and an
\* image_url string, and no uploaded file, passes validation, sends exactly
\* one INSERT INTO customers with these values and, when the store succeeds,
\* invalidates and navigates to the customers listing.
C7_CreateCustomerInserts ==
    \A r \in Requests :
        (/\ op[r] = "createCustomer"
         /\ form[r].name.kind = "string" /\ form[r].name.str # ""
         /\ form[r].email.kind = "string" /\ IsEmail(form[r].email.str)
         /\ form[r].image_url.kind = "string") =>
            /\ Cardinality(Positions(r, "sql")) = 1
            /\ stmt[r] = [text |-> "INSERT INTO customers",
                          name |-> form[r].name.str,
                          email |-> form[r].email.str,
                          image_url |-> form[r].image_url.str]
            /\ Has(r, "sqlOk") =>
                  /\ Has(r, "revalidatePath")
                  /\ result[r] = Redirected("/dashboard/customers")

\* C8, as claimed: a successful updateInvoice(id) overwrites customer_id,
\* amount, status and date of the invoice with that id (the date with the
\* date of the update, as createInvoice derives it) and leaves every other
\* invoice unchanged.
C8_UpdateOverwritesFourFields ==
    [][\A r \in Requests :
          (op[r] = "updateInvoice" /\ pc[r] = "sql" /\ Has(r, "sqlOk")') =>
              /\ DOMAIN invoices' = DOMAIN invoices
              /\ \A i \in DOMAIN invoices :
                    invoices'[i] =
                        IF i = arg[r]
                        THEN [customer_id |-> form[r].customerId.str,
                              amount |-> AmountInCents(form[r].amount),
                              status |-> form[r].status.str,
                              date |-> IsoDate(clock)]
                        ELSE invoices[i]]_vars

\* C8, amended: a successful updateInvoice(id) overwrites customer_id, amount
\* and status of the invoice with that id, keeps its date, and leaves every
\* other invoice unchanged.
C8_UpdateOverwritesThreeFields ==
    [][\A r \in Requests :
          (op[r] = "updateInvoice" /\ pc[r] = "sql" /\ Has(r, "sqlOk")') =>
              /\ DOMAIN invoices' = DOMAIN invoices
              /\ \A i \in DOMAIN invoices :
                    invoices'[i] =
                        IF i = arg[r]
                        THEN [customer_id |-> form[r].customerId.str,
                              amount |-> AmountInCents(form[r].amount),
                              status |-> form[r].status.str,
                              date |-> invoices[i].date]
                        ELSE invoices[i]]_vars

\* an update of invoice 1 succeeded: the row holds the submitted values and
\* the date it was seeded with, invoice 2 is as seeded
C8_Witness ==
    \E r \in Requests :
        /\ op[r] = "updateInvoice" /\ arg[r] = 1 /\ Has(r, "sqlOk")
        /\ 1 \in DOMAIN invoices /\ 2 \in DOMAIN invoices
        /\ invoices[1] = [customer_id |-> "c2", amount |-> 1050, status |-> "paid",
                          date |-> <<"2", "0", "2", "4", "-", "0", "2", "-", "1", "4">>]
        /\ invoices[2].customer_id = "c1" /\ invoices[2].amount = 500

\* C9, as claimed: the file names generated for any two uploads differ, so no
\* upload overwrites the file of another upload.
C9_UploadNamesAreUnique ==
    \A r1, r2 \in Requests :
        (r1 # r2 /\ filename[r1] # <<>> /\ filename[r2] # <<>>) =>
            filename[r1] # filename[r2]

====
